---- MODULE Spec2Model ----
(***************************************************************************)
(* The view-model builders of lib/codegen.js: getCode's version dispatch,  *)
(* the three builders getViewForSwagger1 / 2 / 3, the method-name          *)
(* allocator, the security merge and the parameter loop.                   *)
(*                                                                         *)
(* JavaScript values are modelled as follows.  A string is a TLA+ string.  *)
(* An object is a record; a field the object does not carry is a field     *)
(* the record does not have (Has).  An object whose keys are iterated      *)
(* (swagger.paths, a path item, securityDefinitions) is the sequence of    *)
(* its entries in insertion order.  A security requirement object is the   *)
(* sequence of its keys (its scope lists are never read).                  *)
(*                                                                         *)
(* Not modelled: opts.multiple (taken false), produces / consumes /        *)
(* responses headers, definitions, ts.convertType, and the stages of       *)
(* getCode after the builder returns (formatter, expose, querier,          *)
(* Mustache, lint, beautify).                                              *)
(***************************************************************************)
EXTENDS Integers, Sequences, FiniteSets, TLC

VARIABLES
  options,      \* the options object the caller passes to getCode
  type,         \* the type argument of getCode
  opts,         \* _.cloneDeep(options); the builders write into opts.swagger
  builder,      \* the builder the switch of getCode called ("" before the call)
  swaggerView,  \* <<>>, or <<the view model the builder returned>>
  pc,           \* "start", "build", "done" or "failed"
  k,            \* the entry of EntryList the builder visits next
  methods,      \* the builder's array of the method names allocated
  data,         \* the builder's view model
  error,        \* the error getCode threw, "none" while it threw none
  returned      \* the view models of the calls of getCode that completed, in order

vars == <<options, type, opts, builder, swaggerView, pc, k, methods, data, error,
          returned>>

Has(o, f) == f \in DOMAIN o

(***************************************************************************)
(* Strings                                                                 *)
(***************************************************************************)
LowerChars == "abcdefghijklmnopqrstuvwxyz"

UpperChars == "ABCDEFGHIJKLMNOPQRSTUVWXYZ"

\* s[i] of JavaScript, i counted from 0; "" stands for undefined
CharAt(s, i) == IF i >= 0 /\ i < Len(s) THEN SubSeq(s, i + 1, i + 1) ELSE ""

IsLower(c) == \E i \in 1..Len(LowerChars) : SubSeq(LowerChars, i, i) = c

IsUpper(c) == \E i \in 1..Len(UpperChars) : SubSeq(UpperChars, i, i) = c

UpperChar(c) ==
  IF IsLower(c)
  THEN LET i == CHOOSE i \in 1..Len(LowerChars) : SubSeq(LowerChars, i, i) = c
       IN  SubSeq(UpperChars, i, i)
  ELSE c

LowerChar(c) ==
  IF IsUpper(c)
  THEN LET i == CHOOSE i \in 1..Len(UpperChars) : SubSeq(UpperChars, i, i) = c
       IN  SubSeq(LowerChars, i, i)
  ELSE c

RECURSIVE toUpperCase(_)
toUpperCase(s) ==
  IF s = "" THEN "" ELSE UpperChar(CharAt(s, 0)) \o toUpperCase(SubSeq(s, 2, Len(s)))

RECURSIVE toLowerCase(_)
toLowerCase(s) ==
  IF s = "" THEN "" ELSE LowerChar(CharAt(s, 0)) \o toLowerCase(SubSeq(s, 2, Len(s)))

\* String.prototype.substring(a, b): both clamped to 0..length, swapped if a > b
substring(s, a, b) ==
  LET clamp(n) == IF n < 0 THEN 0 ELSE IF n > Len(s) THEN Len(s) ELSE n
      lo == IF clamp(a) <= clamp(b) THEN clamp(a) ELSE clamp(b)
      hi == IF clamp(a) <= clamp(b) THEN clamp(b) ELSE clamp(a)
  IN  SubSeq(s, lo + 1, hi)

\* hay.indexOf(needle) !== -1
Contains(hay, needle) ==
  \E i \in 1..(Len(hay) + 1) :
     /\ i + Len(needle) - 1 <= Len(hay)
     /\ SubSeq(hay, i, i + Len(needle) - 1) = needle

\* String.prototype.split(sep) for a one-character separator
RECURSIVE split(_, _)
split(s, sep) ==
  IF \A i \in 1..Len(s) : SubSeq(s, i, i) # sep
  THEN <<s>>
  ELSE LET i == CHOOSE i \in 1..Len(s) :
                   /\ SubSeq(s, i, i) = sep
                   /\ \A j \in 1..(i - 1) : SubSeq(s, j, j) # sep
       IN  <<SubSeq(s, 1, i - 1)>> \o split(SubSeq(s, i + 1, Len(s)), sep)

\* Array.prototype.join(sep) of an array of strings
RECURSIVE join(_, _)
join(a, sep) ==
  IF Len(a) = 0 THEN ""
  ELSE IF Len(a) = 1 THEN a[1]
  ELSE a[1] \o sep \o join(Tail(a), sep)

\* array.indexOf(x) !== -1, array.includes(x)
includes(a, x) == \E i \in 1..Len(a) : a[i] = x

(***************************************************************************)
(* _.camelCase on ASCII letters and punctuation: lodash's words() cuts the *)
(* string at every character that is not a letter, before an upper-case    *)
(* letter that follows a lower-case one, and before the last letter of an  *)
(* upper-case run that a lower-case letter follows; every word is          *)
(* lower-cased and every word but the first capitalised.  Digits are not   *)
(* modelled (no modelled path holds one).                                  *)
(***************************************************************************)
\* the length of the word that starts at the head of s (0: no word starts there)
WordLen(s) ==
  LET lowerRun(from) ==
        CHOOSE n \in 0..Len(s) :
           /\ \A i \in 1..n : IsLower(CharAt(s, from + i - 1))
           /\ ~IsLower(CharAt(s, from + n))
      upperRun ==
        CHOOSE n \in 0..Len(s) :
           /\ \A i \in 1..n : IsUpper(CharAt(s, i - 1))
           /\ ~IsUpper(CharAt(s, n))
  IN  IF IsLower(CharAt(s, 0)) THEN lowerRun(0)
      ELSE IF ~IsUpper(CharAt(s, 0)) THEN 0
      ELSE IF IsLower(CharAt(s, 1)) THEN 1 + lowerRun(1)
      ELSE IF IsLower(CharAt(s, upperRun)) THEN upperRun - 1
      ELSE upperRun

RECURSIVE words(_)
words(s) ==
  IF s = "" THEN <<>>
  ELSE IF WordLen(s) = 0 THEN words(SubSeq(s, 2, Len(s)))
  ELSE <<SubSeq(s, 1, WordLen(s))>> \o words(SubSeq(s, WordLen(s) + 1, Len(s)))

upperFirst(s) == UpperChar(CharAt(s, 0)) \o SubSeq(s, 2, Len(s))

RECURSIVE CamelJoin(_, _)
CamelJoin(ws, first) ==
  IF Len(ws) = 0 THEN ""
  ELSE (IF first THEN toLowerCase(ws[1]) ELSE upperFirst(toLowerCase(ws[1])))
       \o CamelJoin(Tail(ws), FALSE)

camelCase(s) == CamelJoin(words(s), TRUE)

(***************************************************************************)
(* Method names                                                            *)
(***************************************************************************)
\* id.replace(/\.|\-|\{|\}|\s/g, '_')
RECURSIVE normalizeName(_)
normalizeName(id) ==
  IF id = "" THEN ""
  ELSE (IF CharAt(id, 0) \in {".", "-", "{", "}", " "} THEN "_" ELSE CharAt(id, 0))
       \o normalizeName(SubSeq(id, 2, Len(id)))

\* path.replace(/\/$/, '')
CleanPath(path) ==
  IF CharAt(path, Len(path) - 1) = "/" THEN SubSeq(path, 1, Len(path) - 1) ELSE path

\* the _.transform callback: a segment wrapped in braces becomes by<Name>
TransformSegment(segment) ==
  IF CharAt(segment, 0) = "{" /\ CharAt(segment, Len(segment) - 1) = "}"
  THEN "by" \o UpperChar(CharAt(segment, 1)) \o substring(segment, 2, Len(segment) - 1)
  ELSE segment

\* cleanPath.split('/').slice(1)
PathSegments(path) == Tail(split(CleanPath(path), "/"))

\* _.camelCase(segments.join('-'))
PathResult(path) ==
  LET segments == PathSegments(path)
  IN  camelCase(join([i \in 1..Len(segments) |-> TransformSegment(segments[i])], "-"))

\* result[0].toUpperCase() on an empty result: TypeError
PathToMethodNameThrows(m, path) ==
  /\ path # "/"
  /\ path # ""
  /\ PathResult(path) = ""

getPathToMethodName(m, path) ==
  IF path = "/" \/ path = ""
  THEN m
  ELSE toLowerCase(m) \o upperFirst(PathResult(path))

\* the suffix loop without its loop: the candidate is taken whether it is free or not
FirstFreeSuffixUnchecked(used, methodName, i) == methodName \o "_" \o ToString(i)

RECURSIVE FirstFreeSuffix(_, _, _)
\* the while (true) loop: the first methodName_i, i = 1, 2, ..., not in methods
FirstFreeSuffix(used, methodName, i) ==
  IF includes(used, methodName \o "_" \o ToString(i))
  THEN FirstFreeSuffix(used, methodName, i + 1)
  ELSE methodName \o "_" \o ToString(i)

\* "Make sure the method name is unique"
UniqueMethodName(used, methodName) ==
  IF includes(used, methodName) THEN FirstFreeSuffix(used, methodName, 1) ELSE methodName

\* op.operationId ? ... : ... (an empty operationId is falsy)
HasOperationId(op) == Has(op, "operationId") /\ op.operationId # ""

DerivedMethodName(op, m, path) ==
  IF HasOperationId(op) THEN normalizeName(op.operationId) ELSE getPathToMethodName(m, path)

DerivedMethodNameThrows(op, m, path) ==
  ~HasOperationId(op) /\ PathToMethodNameThrows(m, path)

authorizedMethods ==
  <<"GET", "POST", "PUT", "DELETE", "PATCH", "COPY", "HEAD", "OPTIONS", "LINK", "UNLIK",
    "PURGE", "LOCK", "UNLOCK", "PROPFIND">>

\* M === '' || authorizedMethods.indexOf(M) === -1
IsAuthorized(m) == toUpperCase(m) # "" /\ includes(authorizedMethods, toUpperCase(m))

(***************************************************************************)
(* Security                                                                *)
(***************************************************************************)
\* one source of _.merge: arrays are merged index by index, and the requirement
\* objects at the same index key by key, so their key sets unite
MergeSource(dst, src) ==
  [i \in 1..(IF Len(dst) > Len(src) THEN Len(dst) ELSE Len(src)) |->
     IF i > Len(src) THEN dst[i]
     ELSE IF i > Len(dst) THEN src[i]
     ELSE dst[i] \o SelectSeq(src[i], LAMBDA key : ~includes(dst[i], key))]

\* _.merge([], swagger.security, op.security).map(Object.keys); an undefined source is skipped
mergedSecurity(swagger, op) ==
  LET global == IF Has(swagger, "security") THEN MergeSource(<<>>, swagger.security) ELSE <<>>
  IN  IF Has(op, "security") THEN MergeSource(global, op.security) ELSE global

RECURSIVE flatten(_)
flatten(a) == IF Len(a) = 0 THEN <<>> ELSE a[1] \o flatten(Tail(a))

\* mergedSecurity.join(',').indexOf(sk) !== -1 (every inner array prints as its keys
\* joined by commas)
MatchesScheme2(merged, sk) ==
  Contains(join([i \in 1..Len(merged) |-> join(merged[i], ",")], ","), sk)

\* mergedSecurity.includes(sk), on the flattened list
MatchesScheme3(merged, sk) == includes(flatten(merged), sk)

\* secureTypes of getViewForSwagger2, as the set of the types pushed
secureTypes2(swagger, op) ==
  IF Has(swagger, "securityDefinitions")
  THEN LET defs == swagger.securityDefinitions
       IN  {defs[i].type : i \in {j \in 1..Len(defs) :
                                     MatchesScheme2(mergedSecurity(swagger, op), defs[j].name)}}
  ELSE {}

\* swagger.components && swagger.components.securitySchemes
HasSecuritySchemes(swagger) ==
  Has(swagger, "components") /\ Has(swagger.components, "securitySchemes")

\* secureTypes of getViewForSwagger3
secureTypes3(swagger, op) ==
  IF HasSecuritySchemes(swagger)
  THEN LET defs == swagger.components.securitySchemes
       IN  {defs[i].type : i \in {j \in 1..Len(defs) :
                                     MatchesScheme3(mergedSecurity(swagger, op), defs[j].name)}}
  ELSE {}

\* swagger.security !== undefined || op.security !== undefined
IsSecure(swagger, op) == Has(swagger, "security") \/ Has(op, "security")

\* Promote without its conditions: data.isSecureX = method.isSecureX on every operation
PromoteLast(d, method) ==
  [isSecureToken |-> method.isSecureToken,
   isSecureApiKey |-> method.isSecureApiKey,
   isSecureBasic |-> method.isSecureBasic] @@ d

\* if (method.isSecure && method.isSecureX) data.isSecureX = method.isSecureX
Promote(d, method) ==
  LET token == IF method.isSecure /\ method.isSecureToken
               THEN ("isSecureToken" :> TRUE) ELSE <<>>
      apiKey == IF method.isSecure /\ method.isSecureApiKey
                THEN ("isSecureApiKey" :> TRUE) ELSE <<>>
      basic == IF method.isSecure /\ method.isSecureBasic
               THEN ("isSecureBasic" :> TRUE) ELSE <<>>
  IN  token @@ apiKey @@ basic @@ d

(***************************************************************************)
(* Parameters.  A parameter object is a record with name and in (paramType *)
(* in the legacy format), or with ref ($ref), and optionally               *)
(* xExcludeFromBindings and xProxyHeader; the builders write camelCaseName *)
(* and the location flags into it.  enum, x-name-pattern, tsType, default  *)
(* and cardinality are not modelled.                                       *)
(***************************************************************************)
\* parameter['x-exclude-from-bindings'] === true
IsExcluded(parameter) == Has(parameter, "xExcludeFromBindings") /\ parameter.xExcludeFromBindings

\* parameter['x-proxy-header'] && !data.isNode
IsDroppedProxy(parameter, isNode) ==
  Has(parameter, "xProxyHeader") /\ parameter.xProxyHeader /\ ~isNode

\* _.camelCase(parameter.name); an undefined name gives ''
CamelCaseName(parameter) == IF Has(parameter, "name") THEN camelCase(parameter.name) ELSE ""

\* the field the classification reads, undefined as ""
LocationOf(parameter, field) == IF Has(parameter, field) THEN parameter[field] ELSE ""

\* lines 447-466: camelCaseName and the if / else-if chain over parameter.in
ClassifyParameter2(parameter) ==
  LET loc == LocationOf(parameter, "in")
      flag == CASE loc = "body" -> ("isBodyParameter" :> TRUE)
                [] loc = "path" -> ("isPathParameter" :> TRUE)
                [] loc = "query" -> ("isQueryParameter" :> TRUE)
                [] loc = "header" -> ("isHeaderParameter" :> TRUE)
                [] loc = "formData" -> ("isFormParameter" :> TRUE)
                [] OTHER -> <<>>
  IN  flag @@ ("camelCaseName" :> CamelCaseName(parameter)) @@ parameter

\* lines 233-251: the chain of getViewForSwagger3 has no 'body' branch
ClassifyParameter3(parameter) ==
  LET loc == LocationOf(parameter, "in")
      flag == CASE loc = "path" -> ("isPathParameter" :> TRUE)
                [] loc = "query" -> ("isQueryParameter" :> TRUE)
                [] loc = "header" -> ("isHeaderParameter" :> TRUE)
                [] loc = "formData" -> ("isFormParameter" :> TRUE)
                [] OTHER -> <<>>
  IN  flag @@ ("camelCaseName" :> CamelCaseName(parameter)) @@ parameter

\* lines 524-543: the legacy chain reads paramType, and 'form'
ClassifyParameter1(parameter) ==
  LET loc == LocationOf(parameter, "paramType")
      flag == CASE loc = "body" -> ("isBodyParameter" :> TRUE)
                [] loc = "path" -> ("isPathParameter" :> TRUE)
                [] loc = "query" -> ("isQueryParameter" :> TRUE)
                [] loc = "header" -> ("isHeaderParameter" :> TRUE)
                [] loc = "form" -> ("isFormParameter" :> TRUE)
                [] OTHER -> <<>>
  IN  flag @@ ("camelCaseName" :> CamelCaseName(parameter)) @@ parameter

\* segments.length === 1 ? segments[0] : segments[at]; "" stands for undefined
RefName(ref, at) ==
  LET segments == split(ref, "/")
  IN  IF Len(segments) = 1 THEN segments[1]
      ELSE IF Len(segments) > at THEN segments[at + 1] ELSE ""

\* the first inner _.forEach: the value of the last key that lower-cases to 'parameters'
globalParams(api) ==
  LET at == {i \in 1..Len(api) : toLowerCase(api[i].m) = "parameters"}
  IN  IF at = {} THEN <<>>
      ELSE api[CHOOSE i \in at : \A j \in at : j <= i].op

GlobalParamsAt(api) ==
  CHOOSE i \in {j \in 1..Len(api) : toLowerCase(api[j].m) = "parameters"} :
     \A j \in 1..Len(api) : toLowerCase(api[j].m) = "parameters" => j <= i

\* _.isArray(op.parameters) ? op.parameters : []
OwnParams(op) == IF Has(op, "parameters") THEN op.parameters ELSE <<>>

\* the parameter object written back where the document holds it: the n-th of
\* op.parameters, or of the path item's parameters
WriteBack(swagger, pi, ei, n, parameter) ==
  LET own == Len(OwnParams(swagger.paths[pi].api[ei].op))
  IN  IF n <= own
      THEN [swagger EXCEPT !.paths[pi].api[ei].op.parameters[n] = parameter]
      ELSE [swagger EXCEPT
              !.paths[pi].api[GlobalParamsAt(swagger.paths[pi].api)].op[n - own] = parameter]

\* swagger.parameters[name] can be read and holds an object
Resolves2(swagger, name) ==
  Has(swagger, "parameters") /\ name \in DOMAIN swagger.parameters

\* swagger.components.parameters[name] can be read and holds an object
Resolves3(swagger, name) ==
  /\ Has(swagger, "components")
  /\ Has(swagger.components, "parameters")
  /\ name \in DOMAIN swagger.components.parameters

RECURSIVE ParameterLoop2(_, _, _, _, _, _)
(***************************************************************************)
(* _.forEach(params, ...) of getViewForSwagger2 from its n-th element.     *)
(* acc carries the document, method.parameters and the error thrown.  A    *)
(* $ref that names no shared parameter leaves parameter undefined, and the *)
(* assignment of camelCaseName throws a TypeError.                         *)
(***************************************************************************)
ParameterLoop2(acc, params, pi, ei, isNode, n) ==
  IF n > Len(params) \/ acc.error # "none" THEN acc
  ELSE LET parameter == params[n]
       IN  IF IsExcluded(parameter) \/ IsDroppedProxy(parameter, isNode)
           THEN ParameterLoop2(acc, params, pi, ei, isNode, n + 1)
           ELSE IF Has(parameter, "ref")
           THEN LET name == RefName(parameter.ref, 2)
                IN  IF ~Resolves2(acc.swagger, name)
                    THEN [acc EXCEPT !.error = "TypeError"]
                    ELSE LET shared == ClassifyParameter2(acc.swagger.parameters[name])
                         IN  ParameterLoop2(
                               [acc EXCEPT !.swagger.parameters[name] = shared,
                                           !.parameters = Append(@, shared)],
                               params, pi, ei, isNode, n + 1)
           ELSE LET own == ClassifyParameter2(parameter)
                IN  ParameterLoop2(
                      [acc EXCEPT !.swagger = WriteBack(@, pi, ei, n, own),
                                  !.parameters = Append(@, own)],
                      params, pi, ei, isNode, n + 1)

RECURSIVE ParameterLoop3(_, _, _, _, _, _)
(***************************************************************************)
(* _.forEach(params, ...) of getViewForSwagger3.  The last element of      *)
(* params may be the request-body pseudo-parameter (acc.fresh), an object  *)
(* made by this call that the document does not hold.                      *)
(***************************************************************************)
ParameterLoop3(acc, params, pi, ei, isNode, n) ==
  IF n > Len(params) \/ acc.error # "none" THEN acc
  ELSE LET parameter == params[n]
       IN  IF IsExcluded(parameter) \/ IsDroppedProxy(parameter, isNode)
           THEN ParameterLoop3(acc, params, pi, ei, isNode, n + 1)
           ELSE IF Has(parameter, "ref")
           THEN LET name == RefName(parameter.ref, 3)
                IN  IF ~Resolves3(acc.swagger, name)
                    THEN [acc EXCEPT !.error = "TypeError"]
                    ELSE LET shared ==
                               ClassifyParameter3(acc.swagger.components.parameters[name])
                         IN  ParameterLoop3(
                               [acc EXCEPT !.swagger.components.parameters[name] = shared,
                                           !.parameters = Append(@, shared),
                                           !.hasExtraHeader =
                                              @ \/ LocationOf(shared, "in") = "header"],
                               params, pi, ei, isNode, n + 1)
           ELSE LET own == ClassifyParameter3(parameter)
                IN  ParameterLoop3(
                      [acc EXCEPT !.swagger = IF acc.fresh /\ n = Len(params)
                                              THEN @ ELSE WriteBack(@, pi, ei, n, own),
                                  !.parameters = Append(@, own),
                                  !.hasExtraHeader = @ \/ LocationOf(own, "in") = "header"],
                      params, pi, ei, isNode, n + 1)

(***************************************************************************)
(* The builders, one verb entry at a time.  b carries what an iteration    *)
(* reads and writes: the document, the names allocated (methods), the view *)
(* model (data) and the error thrown ("none" while there is none).         *)
(***************************************************************************)
\* the body of the second inner _.forEach of getViewForSwagger2, for entry ei of path pi
Swagger2Operation(b, pi, ei, isNode) ==
  LET swagger == b.swagger
      path == swagger.paths[pi].path
      api == swagger.paths[pi].api
      m == api[ei].m
      op == api[ei].op
      M == toUpperCase(m)
  IN  IF ~IsAuthorized(m) THEN b
      ELSE IF DerivedMethodNameThrows(op, m, path) THEN [b EXCEPT !.error = "TypeError"]
      ELSE
        LET secureTypes == secureTypes2(swagger, op)
            methodName == UniqueMethodName(b.methods, DerivedMethodName(op, m, path))
            method == [path |-> path,
                       methodName |-> methodName,
                       method |-> M,
                       isGET |-> M = "GET",
                       isPOST |-> M = "POST",
                       isSecure |-> IsSecure(swagger, op),
                       isSecureToken |-> "oauth2" \in secureTypes,
                       isSecureApiKey |-> "apiKey" \in secureTypes,
                       isSecureBasic |-> "basic" \in secureTypes,
                       parameters |-> <<>>,
                       headers |-> <<>>]
            loop == ParameterLoop2(
                      [swagger |-> swagger, parameters |-> <<>>, error |-> "none"],
                      OwnParams(op) \o globalParams(api), pi, ei, isNode, 1)
            promoted == Promote(b.data, method)
        IN  [swagger |-> loop.swagger,
             methods |-> Append(b.methods, methodName),
             data |-> IF loop.error # "none" THEN promoted
                      ELSE [promoted EXCEPT
                              !.methods = Append(@, [method EXCEPT
                                                       !.parameters = loop.parameters])],
             error |-> loop.error]

\* lines 181-212: the request-body pseudo-parameter, <<>> when none is pushed
RequestBodyParams(op, bodyName) ==
  IF Has(op, "requestBody") /\ Len(op.requestBody.content) > 0
  THEN LET first == op.requestBody.content[1]
           flag == CASE first = "multipart/form-data" -> ("isFormParameter" :> TRUE)
                     [] first = "application/json" -> ("isBodyParameter" :> TRUE)
                     [] OTHER -> <<>>
           name == IF Has(op.requestBody, "xMethodName")
                   THEN ("name" :> op.requestBody.xMethodName) ELSE <<>>
       IN  <<flag @@ name @@ [in |-> IF bodyName # "" THEN bodyName ELSE "body"]>>
  ELSE <<>>

\* the body of the second inner _.forEach of getViewForSwagger3
Swagger3Operation(b, pi, ei, isNode, bodyName) ==
  LET swagger == b.swagger
      path == swagger.paths[pi].path
      api == swagger.paths[pi].api
      m == api[ei].m
      op == api[ei].op
      M == toUpperCase(m)
  IN  IF ~IsAuthorized(m) THEN b
      ELSE IF DerivedMethodNameThrows(op, m, path) THEN [b EXCEPT !.error = "TypeError"]
      ELSE
        LET secureTypes == secureTypes3(swagger, op)
            methodName == UniqueMethodName(b.methods, DerivedMethodName(op, m, path))
            body == RequestBodyParams(op, bodyName)
            first == IF Len(body) > 0 THEN op.requestBody.content[1] ELSE ""
            method == [path |-> path,
                       methodName |-> methodName,
                       method |-> M,
                       isGET |-> M = "GET",
                       isPOST |-> M = "POST",
                       isFormMethod |-> first = "multipart/form-data",
                       isSecure |-> IsSecure(swagger, op),
                       isSecureToken |-> "oauth2" \in secureTypes,
                       isSecureApiKey |-> "apiKey" \in secureTypes,
                       isSecureBasic |-> "basic" \in secureTypes,
                       parameters |-> <<>>,
                       headers |-> IF Len(body) > 0
                                   THEN <<[name |-> "Content-Type", value |-> first]>>
                                   ELSE <<>>,
                       hasExtraHeader |-> FALSE,
                       hasBody |-> Has(op, "requestBody")
                                   /\ first # "application/x-www-form-urlencoded"]
            loop == ParameterLoop3(
                      [swagger |-> swagger, parameters |-> <<>>, error |-> "none",
                       hasExtraHeader |-> FALSE, fresh |-> Len(body) > 0],
                      OwnParams(op) \o globalParams(api) \o body, pi, ei, isNode, 1)
            promoted == Promote(b.data, method)
        IN  [swagger |-> loop.swagger,
             methods |-> Append(b.methods, methodName),
             data |-> IF loop.error # "none" THEN promoted
                      ELSE [promoted EXCEPT
                              !.methods = Append(@, [method EXCEPT
                                                       !.parameters = loop.parameters,
                                                       !.hasExtraHeader = loop.hasExtraHeader])],
             error |-> loop.error]

\* the body of api.operations.forEach of getViewForSwagger1, for operation ei of api pi:
\* method.parameters is read before op.parameters is defaulted to []
Swagger1Operation(b, pi, ei) ==
  LET swagger == b.swagger
      api == swagger.apis[pi]
      op == api.operations[ei]
  IN  IF op.method = "OPTIONS" THEN b
      ELSE
        LET params == OwnParams(op)
            classified == [n \in 1..Len(params) |-> ClassifyParameter1(params[n])]
            parameters == IF Has(op, "parameters")
                          THEN ("parameters" :> classified) ELSE <<>>
            method == parameters @@
                      [path |-> api.path,
                       methodName |-> op.nickname,
                       method |-> op.method,
                       isGET |-> op.method = "GET",
                       isPOST |-> toUpperCase(op.method) = "POST",
                       headers |-> <<>>]
        IN  [b EXCEPT
               !.swagger.apis[pi].operations[ei] = ("parameters" :> classified) @@ op,
               !.data.methods = Append(@, method)]

(***************************************************************************)
(* getCode                                                                 *)
(***************************************************************************)
\* switch (opts.swagger.swagger || opts.swagger.openapi)
VersionMarker(swagger) ==
  IF Has(swagger, "swagger") /\ swagger.swagger # "" THEN swagger.swagger
  ELSE IF Has(swagger, "openapi") THEN swagger.openapi
  ELSE ""

\* the builder the switch calls
SelectBuilder(swagger) ==
  CASE VersionMarker(swagger) = "2.0" -> "getViewForSwagger2"
    [] VersionMarker(swagger) = "3.0.3" -> "getViewForSwagger3"
    [] OTHER -> "getViewForSwagger1"

\* data.isNode of the builder that runs
IsNode(view, t) ==
  IF view = "getViewForSwagger3"
  THEN t \in {"node", "javascript"}
  ELSE t \in {"node", "react"}

\* opts.requestBodyParameterName, "" when the option is not given
BodyName(o) == IF Has(o, "requestBodyParameterName") THEN o.requestBodyParameterName ELSE ""

RECURSIVE Flatten2(_, _)
\* the <<pi, ei>> of every entry of items, in iteration order, from item pi on
Flatten2(lens, pi) ==
  IF pi > Len(lens) THEN <<>>
  ELSE [ei \in 1..lens[pi] |-> <<pi, ei>>] \o Flatten2(lens, pi + 1)

\* the order in which a builder visits the entries of the document
EntryList(view, swagger) ==
  IF view = "getViewForSwagger1"
  THEN Flatten2([pi \in 1..Len(swagger.apis) |-> Len(swagger.apis[pi].operations)], 1)
  ELSE IF Has(swagger, "paths")
  THEN Flatten2([pi \in 1..Len(swagger.paths) |-> Len(swagger.paths[pi].api)], 1)
  ELSE <<>>

\* one iteration of the builder's loop over entry e
BuilderStep(view, b, e, t, o) ==
  CASE view = "getViewForSwagger1" -> Swagger1Operation(b, e[1], e[2])
    [] view = "getViewForSwagger2" ->
         Swagger2Operation(b, e[1], e[2], IsNode(view, t))
    [] view = "getViewForSwagger3" ->
         Swagger3Operation(b, e[1], e[2], IsNode(view, t), BodyName(o))

\* data declared once, outside the builder: a later call goes on with the view model of
\* the call before it
StaleData(view, t) ==
  IF Has(data, "methods") THEN data ELSE [isNode |-> IsNode(view, t), methods |-> <<>>]

\* methods and data as the builder declares them
FreshData(view, t) == [isNode |-> IsNode(view, t), methods |-> <<>>]

RECURSIVE RunFrom(_, _, _, _, _)
\* the builder's loop from the n-th entry on, to its end or to the first throw
RunFrom(view, b, t, o, n) ==
  IF b.error # "none" \/ n > Len(EntryList(view, b.swagger)) THEN b
  ELSE RunFrom(view, BuilderStep(view, b, EntryList(view, b.swagger)[n], t, o),
               t, o, n + 1)

\* a whole call of the builder on the document of o: the view model it returns, and
\* the document as the call leaves it
RunBuilder(view, o, t) ==
  IF view = "getViewForSwagger1" /\ ~Has(o.swagger, "apis")
  THEN [swagger |-> o.swagger, methods |-> <<>>, data |-> FreshData(view, t),
        error |-> "TypeError"]
  ELSE RunFrom(view,
               [swagger |-> o.swagger, methods |-> <<>>, data |-> FreshData(view, t),
                error |-> "none"],
               t, o, 1)

(***************************************************************************)
(* Documents                                                               *)
(***************************************************************************)
MaxOps == 3

MaxPathLen == 4

MaxParams == 2

SeqsUpTo(S, n) == UNION {[1..i -> S] : i \in 0..n}

\* the keys of one path item are distinct
DistinctKeys(api) ==
  \A i, j \in 1..Len(api) : i # j => toUpperCase(api[i].m) # toUpperCase(api[j].m)

\* path items over the given paths and entries: distinct paths, at most n entries in all
PathItems(paths, entries, n) ==
  LET apis == {a \in SeqsUpTo(entries, n) : Len(a) > 0 /\ DistinctKeys(a)}
      items == {[path |-> p, api |-> a] : p \in paths, a \in apis}
  IN  {<<i>> : i \in items}
      \cup {s \in {<<i, j>> : i \in items, j \in items} :
              s[1].path # s[2].path /\ Len(s[1].api) + Len(s[2].api) <= n}

Swagger2Doc(rest) == rest @@ [swagger |-> "2.0", definitions |-> <<>>]

Swagger3Doc(rest) == rest @@ [openapi |-> "3.0.3"]

Call(doc, t) == [options |-> [swagger |-> doc], type |-> t]

\* legacy documents: apis with operations of the given set, at most n in all
LegacyDocs(paths, operations, n) ==
  LET apis(len) == {[path |-> p, operations |-> o] : p \in paths, o \in [1..len -> operations]}
      lens == {x \in (1..n) \X (1..n) : x[1] + x[2] <= n}
  IN  UNION {{[apis |-> <<a>>, definitions |-> <<>>] : a \in apis(i)} : i \in 1..n}
      \cup UNION {{[apis |-> <<a, c>>, definitions |-> <<>>] :
                     a \in apis(x[1]), c \in apis(x[2])} : x \in lens}

\* operations that differ in their explicit id, under two verbs and two paths
NamedOps == {<<>>} \cup {[operationId |-> id] : id \in {"list", "list_1", "get"}}

NamedEntries == {[m |-> m, op |-> op] : m \in {"get", "post"}, op \in NamedOps}

NamedPaths == {"/", "/list"}

LegacyNamedOps ==
  {[method |-> m, nickname |-> n] : m \in {"GET", "OPTIONS"}, n \in {"list", "list_1"}}

\* entries under every kind of key: verbs in both cases, the misspelt UNLIK, a verb
\* outside the list, and the path-level parameters
VerbEntries ==
  {[m |-> m, op |-> <<>>] : m \in {"get", "Put", "unlink", "UNLINK", "unlik", "options",
                                    "trace"}}
  \cup {[m |-> "parameters", op |-> <<[name |-> "id", in |-> "path"]>>]}

LegacyVerbOps ==
  {[method |-> m, nickname |-> "op"] : m \in {"GET", "OPTIONS", "options", "UNLINK", "TRACE"}}

\* documents under every version marker, in the 2.0 / 3.x shape and in the legacy shape
MarkerDocs ==
  LET markers == {<<>>} \cup {[swagger |-> s] : s \in {"2.0", "1.2"}}
      openapis == {<<>>} \cup {[openapi |-> o] : o \in {"3.0.3", "3.0.0", "3.1.0"}}
      shapes == {[paths |-> <<[path |-> "/list", api |-> <<[m |-> "get", op |-> <<>>]>>]>>],
                 [apis |-> <<[path |-> "/list",
                              operations |-> <<[method |-> "GET", nickname |-> "list"]>>]>>]}
      tables == {<<>>, [definitions |-> <<>>], [components |-> [schemas |-> <<>>]]}
  IN  {s @@ o @@ sh @@ t : s \in markers, o \in openapis, sh \in shapes, t \in tables}

NamedCalls ==
  {Call(Swagger2Doc([paths |-> p]), "angular") : p \in PathItems(NamedPaths, NamedEntries, MaxOps)}
  \cup {Call(Swagger3Doc([paths |-> p, components |-> [schemas |-> <<>>]]), "angular") :
          p \in PathItems(NamedPaths, NamedEntries, MaxOps)}
  \cup {Call(d, "angular") : d \in LegacyDocs(NamedPaths, LegacyNamedOps, MaxOps)}
  \cup {Call(Swagger2Doc([paths |-> p]), "angular") : p \in PathItems({"/a"}, VerbEntries, 2)}
  \cup {Call(Swagger3Doc([paths |-> p, components |-> [schemas |-> <<>>]]), "angular") :
          p \in PathItems({"/a"}, VerbEntries, 2)}
  \cup {Call(d, "angular") : d \in LegacyDocs({"/a"}, LegacyVerbOps, 2)}
  \cup {Call(d, "angular") : d \in MarkerDocs}

\* scheme tables, document-level and operation-level requirement lists; the scheme
\* name a is part of the name ab
SchemeTables ==
  {<<>>,
   <<[name |-> "oauth2Scheme", type |-> "oauth2"]>>,
   <<[name |-> "a", type |-> "basic"], [name |-> "ab", type |-> "apiKey"]>>,
   <<[name |-> "a", type |-> "basic"], [name |-> "b", type |-> "oauth2"]>>}

GlobalSecurities == {<<>>, [security |-> <<<<"a">>>>], [security |-> <<<<"ab">>, <<"b">>>>]}

SecuredOps ==
  {<<>>} \cup {[security |-> s] : s \in {<<>>, <<<<"ab">>>>, <<<<"b">>>>, <<<<"oauth2Scheme">>>>}}

SecuredEntries == {[m |-> m, op |-> op] : m \in {"get", "post"}, op \in SecuredOps}

SecurityCalls ==
  {Call(Swagger2Doc(g @@ (IF t = <<>> THEN <<>> ELSE [securityDefinitions |-> t])
                    @@ [paths |-> p]), "angular") :
     g \in GlobalSecurities, t \in SchemeTables, p \in PathItems({"/a"}, SecuredEntries, 2)}
  \cup {Call(Swagger3Doc(g @@ [paths |-> p,
                               components |-> (IF t = <<>> THEN <<>>
                                               ELSE [securitySchemes |-> t])
                                              @@ [schemas |-> <<>>]]), "angular") :
          g \in GlobalSecurities, t \in SchemeTables,
          p \in PathItems({"/a"}, SecuredEntries, 2)}
  \cup {Call(d, "angular") : d \in LegacyDocs({"/a"}, LegacyVerbOps, 1)}

\* shared parameter tables (swagger.parameters, components.parameters)
SharedParameters ==
  [limit |-> [name |-> "limit", in |-> "query"],
   hidden |-> [name |-> "hidden", in |-> "header", xExcludeFromBindings |-> TRUE]]

\* parameter objects: inline ones of every kind of treatment, and references in the
\* 2.0 form, the 3.x form and the bare form, to a shared parameter or to none
InlineParams ==
  {[name |-> "id", in |-> "path"],
   [name |-> "q", in |-> "query", xExcludeFromBindings |-> TRUE],
   [name |-> "h", in |-> "header", xProxyHeader |-> TRUE]}

RefParams ==
  {[ref |-> r] : r \in {"#/parameters/limit", "#/parameters/hidden", "#/parameters/missing",
                        "#/components/parameters/limit", "#/components/parameters/hidden",
                        "#/components/parameters/missing", "limit"}}

ParamLists == SeqsUpTo(InlineParams \cup RefParams, MaxParams)

ParamOps == {<<>>} \cup {[parameters |-> ps] : ps \in ParamLists}

\* path items with one verb entry, with and without path-level parameters
ParamPaths ==
  {<<[path |-> "/a", api |-> <<[m |-> "get", op |-> op]>> \o g]>> :
     op \in ParamOps,
     g \in {<<>>,
            <<[m |-> "parameters", op |-> <<[name |-> "g", in |-> "query"]>>]>>,
            <<[m |-> "parameters", op |-> <<[ref |-> "#/parameters/hidden"]>>]>>}}

\* request bodies of 3.x operations: the content types in declaration order
RequestBodies ==
  {x @@ [content |-> c] :
     x \in {<<>>, [xMethodName |-> "payload"]},
     c \in {<<>>, <<"application/json">>, <<"multipart/form-data">>,
            <<"application/x-www-form-urlencoded">>, <<"text/plain">>,
            <<"application/json", "multipart/form-data">>}}

BodyPaths ==
  {<<[path |-> "/a", api |-> <<[m |-> "post", op |-> op @@ [requestBody |-> rb]]>>]>> :
     op \in {<<>>, [parameters |-> <<[name |-> "id", in |-> "path"]>>]},
     rb \in RequestBodies}

LegacyParams ==
  {[name |-> "id", paramType |-> "path"],
   [name |-> "f", paramType |-> "form", xExcludeFromBindings |-> TRUE]}

LegacyParamOps ==
  {x @@ [method |-> "GET", nickname |-> "op"] :
     x \in {<<>>} \cup {[parameters |-> ps] : ps \in SeqsUpTo(LegacyParams, MaxParams)}}

ParameterCalls ==
  {Call(Swagger2Doc(t @@ [paths |-> p]), ty) :
     t \in {<<>>, [parameters |-> SharedParameters]}, p \in ParamPaths,
     ty \in {"angular", "node"}}
  \cup {Call(Swagger3Doc([paths |-> p,
                          components |-> t @@ [schemas |-> <<>>]]), ty) :
          t \in {<<>>, [parameters |-> SharedParameters]}, p \in ParamPaths,
          ty \in {"angular", "node"}}
  \cup {[options |-> n @@ [swagger |-> Swagger3Doc([paths |-> p,
                                                    components |-> [schemas |-> <<>>]])],
         type |-> "angular"] :
          n \in {<<>>} \cup {[requestBodyParameterName |-> b] : b \in {"query", "formData"}},
          p \in BodyPaths}
  \cup {Call(d, "angular") : d \in LegacyDocs({"/a"}, LegacyParamOps, 2)}

\* every string over the characters of a path template, up to MaxPathLen characters
PathAlphabet == {"/", "{", "}", "a", "B"}

RECURSIVE StringsOfLen(_)
StringsOfLen(n) ==
  IF n = 0 THEN {""} ELSE {s \o c : s \in StringsOfLen(n - 1), c \in PathAlphabet}

PathStrings ==
  UNION {StringsOfLen(n) : n \in 0..MaxPathLen}
  \cup {"/users/{id}", "/users/{id}/", "users/{id}", "/userID/{petId}"}

PathCalls ==
  {Call(Swagger2Doc([paths |-> <<[path |-> p, api |-> <<[m |-> m, op |-> <<>>]>>]>>]),
        "angular") : p \in PathStrings, m \in {"get", "POST"}}
  \cup {Call(Swagger3Doc([paths |-> <<[path |-> p, api |-> <<[m |-> m, op |-> <<>>]>>]>>,
                          components |-> [schemas |-> <<>>]]),
             "angular") : p \in PathStrings, m \in {"get", "POST"}}
  \cup {Call(d, "angular") :
          d \in LegacyDocs({"/users/{id}", "/"}, LegacyNamedOps, 1)}

(***************************************************************************)
(* The generation call                                                     *)
(***************************************************************************)
InitWith(calls) ==
  /\ \E c \in calls : options = c.options /\ type = c.type
  /\ opts = <<>>
  /\ builder = ""
  /\ swaggerView = <<>>
  /\ pc = "start"
  /\ k = 1
  /\ methods = <<>>
  /\ data = <<>>
  /\ error = "none"
  /\ returned = <<>>

\* lines 557-593: the clone, var swaggerView, the switch, and the builder's
\* declarations of methods and data, which every call makes anew; the legacy
\* builder throws at swagger.apis.forEach when the document has no apis
GetCode ==
  /\ pc = "start"
  /\ opts' = options
  /\ builder' = SelectBuilder(options.swagger)
  /\ methods' = <<>>
  /\ data' = FreshData(builder', type)
  /\ k' = 1
  /\ pc' = IF builder' = "getViewForSwagger1" /\ ~Has(options.swagger, "apis")
           THEN "failed" ELSE "build"
  /\ error' = IF builder' = "getViewForSwagger1" /\ ~Has(options.swagger, "apis")
              THEN "TypeError" ELSE "none"
  /\ swaggerView' = <<>>
  /\ UNCHANGED <<options, type, returned>>

\* one iteration of the running builder
Iterate(b) ==
  /\ opts' = [opts EXCEPT !.swagger = b.swagger]
  /\ methods' = b.methods
  /\ data' = b.data
  /\ error' = b.error
  /\ pc' = IF b.error # "none" THEN "failed" ELSE "build"
  /\ k' = k + 1
  /\ UNCHANGED <<options, type, builder, swaggerView, returned>>

Current == [swagger |-> opts.swagger, methods |-> methods, data |-> data, error |-> error]

Operation1 ==
  /\ pc = "build"
  /\ builder = "getViewForSwagger1"
  /\ k <= Len(EntryList(builder, opts.swagger))
  /\ LET e == EntryList(builder, opts.swagger)[k]
     IN  Iterate(Swagger1Operation(Current, e[1], e[2]))

Operation2 ==
  /\ pc = "build"
  /\ builder = "getViewForSwagger2"
  /\ k <= Len(EntryList(builder, opts.swagger))
  /\ LET e == EntryList(builder, opts.swagger)[k]
     IN  Iterate(Swagger2Operation(Current, e[1], e[2], IsNode(builder, type)))

Operation3 ==
  /\ pc = "build"
  /\ builder = "getViewForSwagger3"
  /\ k <= Len(EntryList(builder, opts.swagger))
  /\ LET e == EntryList(builder, opts.swagger)[k]
     IN  Iterate(Swagger3Operation(Current, e[1], e[2], IsNode(builder, type),
                                   BodyName(opts)))

\* the builder returns data (lines 585-591); line 599 then reads
\* opts.swagger.definitions || opts.swagger.components.schemas
Return ==
  /\ pc = "build"
  /\ k > Len(EntryList(builder, opts.swagger))
  /\ swaggerView' = <<data>>
  /\ pc' = IF Has(opts.swagger, "definitions") \/ Has(opts.swagger, "components")
           THEN "done" ELSE "failed"
  /\ error' = IF Has(opts.swagger, "definitions") \/ Has(opts.swagger, "components")
              THEN "none" ELSE "TypeError"
  /\ returned' = IF pc' = "done" THEN Append(returned, data) ELSE returned
  /\ UNCHANGED <<options, type, opts, builder, k, methods, data>>

Next == GetCode \/ Operation1 \/ Operation2 \/ Operation3 \/ Return

Init == InitWith(NamedCalls)

Spec == Init /\ [][Next]_vars

InitSecurity == InitWith(SecurityCalls)

SpecSecurity == InitSecurity /\ [][Next]_vars

InitParameters == InitWith(ParameterCalls)

SpecParameters == InitParameters /\ [][Next]_vars

InitPaths == InitWith(PathCalls)

SpecPaths == InitPaths /\ [][Next]_vars

(***************************************************************************)
(* Several generation calls, one after the other.  getCode and the         *)
(* builders hold no await and no callback that runs later, so a call runs  *)
(* to its end before the next one starts.  The variables of a call keep    *)
(* the values the call before left in them until the code assigns them.    *)
(***************************************************************************)
MaxCalls == 2

\* operations whose ids collide from one document to the next, secured or not
RepeatedEntries ==
  {[m |-> "get", op |-> [operationId |-> "list"]],
   [m |-> "get", op |-> [operationId |-> "list", security |-> <<<<"oauth2Scheme">>>>]],
   [m |-> "post", op |-> [operationId |-> "list"]]}

RepeatedCalls ==
  {Call(Swagger2Doc([securityDefinitions |-> <<[name |-> "oauth2Scheme", type |-> "oauth2"]>>,
                     paths |-> p]), "angular") :
     p \in PathItems({"/list"}, RepeatedEntries, 2)}
  \cup {Call(Swagger3Doc([paths |-> p,
                          components |->
                            [securitySchemes |->
                               <<[name |-> "oauth2Scheme", type |-> "oauth2"]>>,
                             schemas |-> <<>>]]), "angular") :
          p \in PathItems({"/list"}, RepeatedEntries, 2)}
  \cup {Call(d, "angular") : d \in LegacyDocs({"/list"}, LegacyNamedOps, 1)}

\* lines 669-689: the caller invokes an entry point of exports.CodeGen again
CodeGen ==
  /\ pc \in {"done", "failed"}
  /\ Len(returned) < MaxCalls
  /\ \E c \in RepeatedCalls : options' = c.options /\ type' = c.type
  /\ pc' = "start"
  /\ UNCHANGED <<opts, builder, swaggerView, k, methods, data, error, returned>>

NextCalls == Next \/ CodeGen

InitCalls == InitWith(RepeatedCalls)

SpecCalls == InitCalls /\ [][NextCalls]_vars

(***************************************************************************)
(* What the claims read from a state                                       *)
(***************************************************************************)
Swagger2Or3 == builder \in {"getViewForSwagger2", "getViewForSwagger3"}

\* the entries the builder has visited, in order
Visited ==
  IF pc = "start" \/ ~(Has(opts.swagger, "paths") \/ Has(opts.swagger, "apis")) THEN <<>>
  ELSE SubSeq(EntryList(builder, opts.swagger), 1, k - 1)

\* the entry of a 2.0 / 3.x document at e, with its path
PathEntry(e) ==
  [path |-> opts.swagger.paths[e[1]].path,
   api |-> opts.swagger.paths[e[1]].api,
   m |-> opts.swagger.paths[e[1]].api[e[2]].m,
   op |-> opts.swagger.paths[e[1]].api[e[2]].op]

\* the visited entries of a 2.0 / 3.x document that passed the verb check, in order
Retained == SelectSeq(Visited, LAMBDA e : IsAuthorized(PathEntry(e).m))

Suffixed(name, i) == name \o "_" \o ToString(i)

\* C1: no two Methods of the view model have the same methodName, in any builder
C1_UniqueMethodNames ==
  pc # "start" =>
    \A i, j \in 1..Len(data.methods) :
       i # j => data.methods[i].methodName # data.methods[j].methodName

\* C2: the n-th name allocated by the 2.0 and 3.x builders is the derived name N of
\* the n-th retained entry when N was not allocated before, and otherwise N_i for the
\* smallest i >= 1 such that N_i was not allocated before
C2_SmallestFreeSuffix ==
  (Swagger2Or3 /\ pc # "failed") =>
    /\ Len(methods) = Len(Retained)
    /\ \A n \in 1..Len(methods) :
          LET e == PathEntry(Retained[n])
              N == DerivedMethodName(e.op, e.m, e.path)
              before == SubSeq(methods, 1, n - 1)
          IN  IF ~includes(before, N) THEN methods[n] = N
              ELSE \E i \in 1..n :
                     /\ methods[n] = Suffixed(N, i)
                     /\ ~includes(before, Suffixed(N, i))
                     /\ \A j \in 1..(i - 1) : includes(before, Suffixed(N, j))

\* two operations with id "list" and one with id "list_1", in this order, were named
\* list, list_1 and list_1_1
C2_Witness ==
  /\ Swagger2Or3
  /\ pc = "done"
  /\ methods = <<"list", "list_1", "list_1_1">>
  /\ \A n \in 1..2 : PathEntry(Retained[n]).op = [operationId |-> "list"]
  /\ PathEntry(Retained[3]).op = [operationId |-> "list_1"]

\* C5: the switch selects the 2.0 builder when swagger is "2.0", the 3.x builder when
\* the document carries an openapi marker, and the legacy builder otherwise
C5_DispatchByMarker ==
  pc # "start" =>
    LET swagger == options.swagger
        is2 == Has(swagger, "swagger") /\ swagger.swagger = "2.0"
    IN  builder = IF is2 THEN "getViewForSwagger2"
                  ELSE IF Has(swagger, "openapi") THEN "getViewForSwagger3"
                  ELSE "getViewForSwagger1"

\* the verbs the claim lists
ClaimedVerbs ==
  {"GET", "POST", "PUT", "DELETE", "PATCH", "COPY", "HEAD", "OPTIONS", "LINK", "UNLINK",
   "PURGE", "LOCK", "UNLOCK", "PROPFIND"}

\* the <<path, verb>> of the visited entries that the claim says produce a Method
ClaimedMethods ==
  LET verbOf(e) == IF builder = "getViewForSwagger1"
                   THEN toUpperCase(opts.swagger.apis[e[1]].operations[e[2]].method)
                   ELSE toUpperCase(PathEntry(e).m)
      pathOf(e) == IF builder = "getViewForSwagger1"
                   THEN opts.swagger.apis[e[1]].path
                   ELSE PathEntry(e).path
      kept == SelectSeq(Visited, LAMBDA e :
                 /\ verbOf(e) \in ClaimedVerbs
                 /\ ~(builder = "getViewForSwagger1" /\ verbOf(e) = "OPTIONS"))
  IN  [n \in 1..Len(kept) |-> <<pathOf(kept[n]), verbOf(kept[n])>>]

\* C6: a verb entry produces a Method if and only if its verb, upper-cased, is one of
\* the fourteen listed (OPTIONS excepted in the legacy builder); any other entry
\* produces no Method and consumes no method name
C6_WhitelistedVerbsOnly ==
  pc \in {"build", "done"} =>
    /\ [n \in 1..Len(data.methods) |->
          <<data.methods[n].path, toUpperCase(data.methods[n].method)>>] = ClaimedMethods
    /\ Swagger2Or3 => Len(methods) = Len(ClaimedMethods)

\* the scheme table the running builder reads
SchemeTable ==
  IF builder = "getViewForSwagger2"
  THEN IF Has(opts.swagger, "securityDefinitions") THEN opts.swagger.securityDefinitions
       ELSE <<>>
  ELSE IF HasSecuritySchemes(opts.swagger) THEN opts.swagger.components.securitySchemes
  ELSE <<>>

\* some scheme of the given names is a key of the scheme table with the given type
NamesScheme(names, kind) ==
  \E i \in 1..Len(SchemeTable) :
     SchemeTable[i].type = kind /\ SchemeTable[i].name \in names

\* the scheme names of a requirement list
KeysOf(requirements) ==
  UNION {{requirements[i][j] : j \in 1..Len(requirements[i])} : i \in 1..Len(requirements)}

\* the Methods produced so far stand one to one for the retained entries
MethodsMatchRetained ==
  Swagger2Or3 /\ pc \in {"build", "done"} /\ Len(data.methods) = Len(Retained)

\* C3: an operation that declares its own security list is flagged from exactly the
\* scheme names of that list (replacement, not union); one that declares none is
\* flagged from the document-level list
C3_OperationSecurityReplaces ==
  MethodsMatchRetained =>
    \A n \in 1..Len(data.methods) :
       LET op == PathEntry(Retained[n]).op
           names == IF Has(op, "security") THEN KeysOf(op.security)
                    ELSE IF Has(opts.swagger, "security") THEN KeysOf(opts.swagger.security)
                    ELSE {}
       IN  /\ KeysOf(mergedSecurity(opts.swagger, op)) = names
           /\ data.methods[n].isSecureToken => NamesScheme(names, "oauth2")
           /\ data.methods[n].isSecureApiKey => NamesScheme(names, "apiKey")
           /\ data.methods[n].isSecureBasic => NamesScheme(names, "basic")

\* C4: a Method's flag for a kind is true if and only if some scheme name of the
\* merged requirement is, as a whole name, a key of the scheme table with that type
C4_FlagsByWholeSchemeName ==
  MethodsMatchRetained =>
    \A n \in 1..Len(data.methods) :
       LET merged == KeysOf(mergedSecurity(opts.swagger, PathEntry(Retained[n]).op))
       IN  /\ data.methods[n].isSecureToken <=> NamesScheme(merged, "oauth2")
           /\ data.methods[n].isSecureApiKey <=> NamesScheme(merged, "apiKey")
           /\ data.methods[n].isSecureBasic <=> NamesScheme(merged, "basic")

\* C7: no Parameter of any Method is marked exclude-from-bindings, whether declared
\* inline, at path level, or reached through a $ref
C7_NoExcludedParameter ==
  pc # "start" =>
    \A n \in 1..Len(data.methods) :
       Has(data.methods[n], "parameters") =>
         \A i \in 1..Len(data.methods[n].parameters) :
            ~IsExcluded(data.methods[n].parameters[i])

\* the shared parameter table of the running builder's format
BackingTable ==
  IF builder = "getViewForSwagger2"
  THEN IF Has(opts.swagger, "parameters") THEN opts.swagger.parameters ELSE <<>>
  ELSE IF Has(opts.swagger, "components") /\ Has(opts.swagger.components, "parameters")
  THEN opts.swagger.components.parameters
  ELSE <<>>

\* a reference the builder resolves whose name is not in the backing table
IsBrokenReference(parameter) ==
  /\ Has(parameter, "ref")
  /\ ~IsExcluded(parameter)
  /\ ~IsDroppedProxy(parameter, data.isNode)
  /\ LET segments == split(parameter.ref, "/")
     IN  segments[Len(segments)] \notin DOMAIN BackingTable

\* C8: a parameter $ref that names no shared parameter of the backing table makes the
\* call fail with a BrokenReference error, and no view model is returned
C8_BrokenReferenceRaised ==
  (Swagger2Or3 /\ pc # "start") =>
    \A n \in 1..Len(Retained) :
       LET e == PathEntry(Retained[n])
           params == OwnParams(e.op) \o globalParams(e.api)
       IN  (\E i \in 1..Len(params) : IsBrokenReference(params[i])) =>
             /\ pc = "failed"
             /\ error = "BrokenReference"
             /\ swaggerView = <<>>

\* the segments of a path: what its slashes separate, after one trailing slash is
\* stripped; the empty string before a leading slash is no segment
AllSegments(path) ==
  LET parts == split(CleanPath(path), "/")
  IN  IF CharAt(path, 0) = "/" THEN Tail(parts) ELSE parts

\* a segment {x...} becomes by, the upper-cased x, and the rest
RewriteSegment(segment) ==
  IF Len(segment) >= 3 /\ CharAt(segment, 0) = "{" /\ CharAt(segment, Len(segment) - 1) = "}"
  THEN "by" \o UpperChar(CharAt(segment, 1)) \o SubSeq(segment, 3, Len(segment) - 1)
  ELSE segment

\* the name the claim derives from a verb and a path
ClaimedName(m, path) ==
  IF path = "/" \/ path = "" THEN m
  ELSE LET segments == AllSegments(path)
       IN  toLowerCase(m) \o upperFirst(camelCase(
             join([i \in 1..Len(segments) |-> RewriteSegment(segments[i])], "-")))

\* C9: the first operation of a document, when it has no explicit id, is named by the
\* verb itself for the path / or the empty path, and otherwise by the lower-cased verb
\* followed by the capitalised camelCase join of all rewritten path segments
C9_NameFromAllSegments ==
  (Swagger2Or3 /\ pc # "start" /\ Len(Retained) > 0
     /\ ~HasOperationId(PathEntry(Retained[1]).op)) =>
    /\ Len(data.methods) > 0
    /\ data.methods[1].methodName =
         ClaimedName(PathEntry(Retained[1]).m, PathEntry(Retained[1]).path)

\* C10: when the builder has returned, running it again on the same document object
\* and options returns an equal view model
C10_SecondRunEqual ==
  swaggerView # <<>> =>
    /\ RunBuilder(builder, opts, type).error = "none"
    /\ RunBuilder(builder, opts, type).data = swaggerView[1]

\* a flag of a view model or of a Method, an absent (undefined) flag read as false
FlagOf(o, flag) == Has(o, flag) /\ o[flag]

SecurityFlags == {"isSecureToken", "isSecureApiKey", "isSecureBasic"}

SingleCall(o, t) ==
  LET view == SelectBuilder(o.swagger)
  IN  RunFrom(view,
              [swagger |-> o.swagger, methods |-> <<>>,
               data |-> [isNode |-> IsNode(view, t), methods |-> <<>>],
               error |-> "none"],
              t, o, 1)

MethodNames(view) == [n \in 1..Len(view.methods) |-> view.methods[n].methodName]

\* C12: whatever calls came before, the method names, the set of names allocated and the
\* document-wide security flags a call produces for its document are those of a
\* single call on that document alone
C12_CallsShareNothing ==
  pc = "done" =>
    LET alone == SingleCall(options, type)
    IN  /\ alone.error = "none"
        /\ MethodNames(swaggerView[1]) = MethodNames(alone.data)
        /\ Swagger2Or3 => methods = alone.methods
        /\ \A flag \in SecurityFlags :
              FlagOf(swaggerView[1], flag) <=> FlagOf(alone.data, flag)

\* C12 witness: a second call has returned a Method named list and no token flag, after
\* a first call that allocated the name list and promoted the token flag
C12_Witness ==
  /\ pc = "done"
  /\ Len(returned) = 2
  /\ Len(returned[1].methods) > 0
  /\ returned[1].methods[1].methodName = "list"
  /\ FlagOf(returned[1], "isSecureToken")
  /\ Len(swaggerView[1].methods) > 0
  /\ swaggerView[1].methods[1].methodName = "list"
  /\ ~FlagOf(swaggerView[1], "isSecureToken")

LocationFlags ==
  {"isPathParameter", "isQueryParameter", "isHeaderParameter", "isBodyParameter",
   "isFormParameter"}

\* the location flags a Parameter carries
LocationsOf(parameter) == {flag \in LocationFlags : FlagOf(parameter, flag)}

\* the parameters list of a Method, empty when the Method has none
ParametersOf(method) == IF Has(method, "parameters") THEN method.parameters ELSE <<>>

\* C13: every Parameter of every Method carries exactly one location flag, the
\* request-body pseudo-parameter of the 3.x builder included, for every content type
\* and every requestBodyParameterName
C13_ExactlyOneLocation ==
  pc # "start" =>
    \A n \in 1..Len(data.methods) :
       \A i \in 1..Len(ParametersOf(data.methods[n])) :
          Cardinality(LocationsOf(ParametersOf(data.methods[n])[i])) = 1
====
